---- MODULE Spec2Model ----
(***************************************************************************)
(* Compile-time sieve of Eratosthenes (src/eratosthenes.cpp).              *)
(*                                                                         *)
(* Three specifications over one set of variables:                         *)
(*   Spec / FairSpec  instantiation of check<MaxNumber>: the recursion of  *)
(*                    merged_factor_table<Size, MaxNumber, PresentFactor>  *)
(*                    down to the base case 3 and back up, followed by     *)
(*                    calls of check<MaxNumber>(num);                      *)
(*   SpecBits         bit_array<Size>(initializer_list<bool>) followed by  *)
(*                    reads through operator[];                            *)
(*   SpecMerge        merge_factors on two tables of the same size.        *)
(***************************************************************************)
EXTENDS Integers, Sequences, FiniteSets, TLC

VARIABLES
    MaxNumber,      \* template argument of check<MaxNumber>
    pc,             \* "descend" | "build" | "done" | "error" | "idle"
    PresentFactor,  \* template argument of the merged_factor_table being evaluated
    composites,     \* value returned by the last completed merged_factor_table<..>::get()
    visited,        \* odd factors whose get() has completed, in order of completion
    merged,         \* the factors of visited whose factor table was merged
    num,            \* argument of the last call of check<MaxNumber>
    result,         \* its outcome: "none" | "true" | "false" | "error"
    bits,           \* SpecBits: Size of the bit_array under construction
    list,           \* SpecBits: the initializer_list<bool>
    index,          \* SpecBits: loop variable of the constructor
    storage,        \* SpecBits: the raw backing storage
    bpc,            \* SpecBits: "ctor" | "ready" | "idle"
    readIdx,        \* SpecBits: index of the last operator[] call (-1: none)
    readVal,        \* SpecBits: its value
    mSize,          \* SpecMerge: Size of both tables
    lhs,            \* SpecMerge: first table
    rhs,            \* SpecMerge: second table
    mout            \* SpecMerge: results of the merges (done = FALSE: none yet)

sieveVars == <<MaxNumber, pc, PresentFactor, composites, visited, merged, num, result>>
bitsVars  == <<bits, list, index, storage, bpc, readIdx, readVal>>
mergeVars == <<mSize, lhs, rhs, mout>>
vars      == <<sieveVars, bitsVars, mergeVars>>

----------------------------------------------------------------------------
(* Bounds of the model. *)

MaxN == 49          \* largest bound MaxNumber tried
MaxQuery == 64      \* largest argument num of check tried
UintBits == 7       \* width of uint_t / size_t in the model (64 in the build)
MaxBits == 9        \* largest Size of a bit_array built from a list in SpecBits
MaxMergeSize == 4   \* largest Size of the tables merged in SpecMerge

(* Program constants. *)

CHAR_BIT == 8
BaseFactor == 3     \* PresentFactor of the specialisation that ends the recursion
FactorStep == 2     \* distance between successive factors

UintMod == 2 ^ UintBits

----------------------------------------------------------------------------
(* rhc::detail::ceil and rhc::bit_array *)

\* ceil<size_t>(static_cast<float>(bits) / CHAR_BIT): the truncated quotient
\* when it is exact, one more otherwise (the quotient is never negative).
ceil(numerator, denominator) ==
    IF (numerator \div denominator) * denominator = numerator
    THEN numerator \div denominator
    ELSE (numerator \div denominator) + 1

bytes(Size) == ceil(Size, CHAR_BIT)

index_to_byte(idx) == idx \div CHAR_BIT

\* Mutant: the offset taken modulo one bit less than a byte holds.
index_to_offset_short(idx) == idx - (CHAR_BIT - 1) * (idx \div (CHAR_BIT - 1))

index_to_offset(idx) == idx - CHAR_BIT * (idx \div CHAR_BIT)

\* Bit k of a byte value.
BitOf(b, k) == (b \div (2 ^ k)) % 2

\* operator| of std::byte.
ByteOr(a, b) ==
    LET or[k \in 0..CHAR_BIT] ==
            IF k = CHAR_BIT THEN 0
            ELSE (IF BitOf(a, k) = 1 \/ BitOf(b, k) = 1 THEN 2 ^ k ELSE 0) + or[k + 1]
    IN  or[0]

\* storage{}: every byte zero.  Sequences are 1-based: byte k is storage[k+1].
ZeroStorage(Size) == [k \in 1..bytes(Size) |-> 0]

\* One iteration of the constructor's loop:
\*   storage[index_to_byte(index)] |= std::byte(bit << index_to_offset(index))
SetBit(st, idx, bit) ==
    [st EXCEPT ![index_to_byte(idx) + 1] =
        ByteOr(@, ((IF bit THEN 1 ELSE 0) * (2 ^ index_to_offset(idx))) % (2 ^ CHAR_BIT))]

\* bit_array(const std::initializer_list<bool>&): the loop, run to completion.
bit_array(Size, flags) ==
    LET loop[i \in 0..Len(flags)] ==
            IF i = 0 THEN ZeroStorage(Size)
            ELSE SetBit(loop[i - 1], i - 1, flags[i])
    IN  loop[Len(flags)]

\* Whether operator[] reads inside the object's storage.
InStorage(st, idx) == index_to_byte(idx) < Len(st)

\* operator[]: (storage[index_to_byte(index)] >> index_to_offset(index)) & 0x1
Get(st, idx) == BitOf(st[index_to_byte(idx) + 1], index_to_offset(idx)) = 1

----------------------------------------------------------------------------
(* rhc::primes *)

\* Mutant: the mapping starts at 1 instead of 3.
to_index_from_one(number) == (((number - 1) % UintMod)) \div 2

to_index(number) == (((number - 3) % UintMod)) \div 2

to_number(idx) == (idx * 2 + 3) % UintMod

\* Mutant: a factor is marked as its own multiple.
get_factor_table_nonstrict(Size, Factor) ==
    bit_array(Size, [i \in 1..Size |-> to_number(i - 1) % Factor = 0])

\* get_factor_table<Size, Factor>(index_sequence<0..Size-1>)
get_factor_table(Size, Factor) ==
    bit_array(Size, [i \in 1..Size |->
        to_number(i - 1) % Factor = 0 /\ to_number(i - 1) > Factor])

\* Mutant: the right-hand table is dropped.
merge_factors_lhs_only(Size, l, r) ==
    bit_array(Size, [i \in 1..Size |-> Get(l, i - 1)])

\* merge_factors<Size>(lhs, rhs, index_sequence<0..Size-1>)
merge_factors(Size, l, r) ==
    bit_array(Size, [i \in 1..Size |-> Get(l, i - 1) \/ Get(r, i - 1)])

\* Mutant: the size rounded up.
SizeOf_rounded_up(MaxNum) == (MaxNum + 1) \div 2

\* constexpr size_t Size = MaxNumber/2 in check<MaxNumber>
SizeOf(MaxNum) == MaxNum \div 2

\* PresentFactor-2, the template argument of the nested instantiation
PrecedingFactor(Factor) == (Factor - FactorStep) % UintMod

\* the instantiation that asked for this one
FollowingFactor(Factor) == (Factor + FactorStep) % UintMod

\* Mutant: the test inverted.
KnownComposite_inverted(preceding, Factor) == ~Get(preceding, to_index(Factor))

\* if (preceding_composites[to_index(PresentFactor)])
KnownComposite(preceding, Factor) == Get(preceding, to_index(Factor))


\* Mutant: the even test placed before the test for 2.
check_even_first(table, number) ==
    IF number = 0 \/ number = 1 THEN {"false"}
    ELSE IF number % 2 = 0 THEN {"false"}
    ELSE IF number = 2 THEN {"true"}
    ELSE IF InStorage(table, to_index(number))
         THEN {IF Get(table, to_index(number)) THEN "false" ELSE "true"}
         ELSE {"true", "false", "error"}

\* check<MaxNumber>(num): the set of outcomes a call can have.  A read outside
\* the storage of composites is undefined behaviour: any answer, or a fault.
check(table, number) ==
    IF number = 0 \/ number = 1 THEN {"false"}
    ELSE IF number = 2 THEN {"true"}
    ELSE IF number % 2 = 0 THEN {"false"}
    ELSE IF InStorage(table, to_index(number))
         THEN {IF Get(table, to_index(number)) THEN "false" ELSE "true"}
         ELSE {"true", "false", "error"}

----------------------------------------------------------------------------
(* Instantiation of check<MaxNumber> and calls of it. *)

IdleBits == /\ bits = 0 /\ list = <<>> /\ index = 0 /\ storage = <<>>
            /\ bpc = "idle" /\ readIdx = -1 /\ readVal = FALSE

NoMerge == [done |-> FALSE, ab |-> <<>>, ba |-> <<>>, aa |-> <<>>]

IdleMerge == mSize = 0 /\ lhs = <<>> /\ rhs = <<>> /\ mout = NoMerge

IdleSieve == /\ MaxNumber = 0 /\ pc = "idle" /\ PresentFactor = 0 /\ composites = <<>>
             /\ visited = <<>> /\ merged = {} /\ num = 0 /\ result = "none"

\* merged_factor_table<Size, MaxNumber, MaxNumber>::get() is asked for.
Init ==
    /\ MaxNumber \in 0..MaxN
    /\ pc = "descend"
    /\ PresentFactor = MaxNumber
    /\ composites = <<>>
    /\ visited = <<>>
    /\ merged = {}
    /\ num = 0
    /\ result = "none"
    /\ IdleBits
    /\ IdleMerge

\* get() of PresentFactor has returned: its caller continues, or check has its table.
Return ==
    IF PresentFactor = MaxNumber
    THEN pc' = "done" /\ PresentFactor' = PresentFactor
    ELSE pc' = "build" /\ PresentFactor' = FollowingFactor(PresentFactor)

\* The primary template: get() first needs merged_factor_table<.., PresentFactor-2>::get().
Instantiate ==
    /\ pc = "descend"
    /\ PresentFactor # BaseFactor
    /\ PresentFactor' = PrecedingFactor(PresentFactor)
    /\ UNCHANGED <<MaxNumber, pc, composites, visited, merged, num, result, bitsVars, mergeVars>>

\* The specialisation for PresentFactor = 3.
BaseCase ==
    /\ pc = "descend"
    /\ PresentFactor = BaseFactor
    /\ composites' = get_factor_table(SizeOf(MaxNumber), BaseFactor)
    /\ visited' = <<BaseFactor>>
    /\ merged' = {BaseFactor}
    /\ Return
    /\ UNCHANGED <<MaxNumber, num, result, bitsVars, mergeVars>>

\* Known composite; skip.
Skip ==
    /\ pc = "build"
    /\ InStorage(composites, to_index(PresentFactor))
    /\ KnownComposite(composites, PresentFactor)
    /\ visited' = Append(visited, PresentFactor)
    /\ Return
    /\ UNCHANGED <<MaxNumber, composites, merged, num, result, bitsVars, mergeVars>>

\* Otherwise the factor's own table is merged into the preceding composites.
Merge ==
    /\ pc = "build"
    /\ InStorage(composites, to_index(PresentFactor))
    /\ ~KnownComposite(composites, PresentFactor)
    /\ composites' = merge_factors(SizeOf(MaxNumber),
                        get_factor_table(SizeOf(MaxNumber), PresentFactor), composites)
    /\ visited' = Append(visited, PresentFactor)
    /\ merged' = merged \cup {PresentFactor}
    /\ Return
    /\ UNCHANGED <<MaxNumber, num, result, bitsVars, mergeVars>>

\* The read of preceding_composites falls outside its storage: the constant
\* evaluation of get() is rejected and the build fails.
ReadOutside ==
    /\ pc = "build"
    /\ ~InStorage(composites, to_index(PresentFactor))
    /\ pc' = "error"
    /\ UNCHANGED <<MaxNumber, PresentFactor, composites, visited, merged, num, result, bitsVars, mergeVars>>

\* A call check<MaxNumber>(n).
Check ==
    /\ pc = "done"
    /\ \E n \in 0..MaxQuery :
          /\ num' = n
          /\ result' \in check(composites, n)
    /\ UNCHANGED <<MaxNumber, pc, PresentFactor, composites, visited, merged, bitsVars, mergeVars>>

Next ==
    \/ Instantiate
    \/ BaseCase
    \/ Skip
    \/ Merge
    \/ ReadOutside
    \/ Check

Spec == Init /\ [][Next]_vars

\* The computation is sequential and deterministic: a step that can be taken is taken.
FairSpec == Init /\ [][Next]_vars /\ WF_vars(Next)

----------------------------------------------------------------------------
(* Reference notions the properties are stated against. *)

IsPrime(n) == n > 1 /\ \A d \in 2..(n - 1) : n % d # 0

IsComposite(n) == n > 1 /\ ~IsPrime(n)

OddBound == MaxNumber >= 3 /\ MaxNumber % 2 = 1

Range(seq) == {seq[k] : k \in 1..Len(seq)}

\* 3, 5, ..., the largest odd number <= n
OddFactors(n) == [k \in 1..((n - 1) \div 2) |-> 2 * k + 1]

\* ceil((n - 1) / 2)
CeilHalfBelow(n) == IF (n - 1) % 2 = 0 THEN (n - 1) \div 2 ELSE ((n - 1) \div 2) + 1

Answer(b) == IF b THEN "true" ELSE "false"

\* The factor loop with the skip of known composites disabled: every odd
\* factor 3..Factor is merged unconditionally.
RECURSIVE merged_factor_table_noskip(_, _)
merged_factor_table_noskip(Size, Factor) ==
    IF Factor = BaseFactor
    THEN get_factor_table(Size, BaseFactor)
    ELSE merge_factors(Size, get_factor_table(Size, Factor),
                       merged_factor_table_noskip(Size, Factor - FactorStep))

----------------------------------------------------------------------------
(* Properties of Spec / FairSpec. *)

\* C1: for an odd bound N >= 3, once the table is built, check<N>(n) answers
\* "true" exactly for the primes n in 0..N, and the answer of a call with
\* n <= N is that one.
C1_OracleMatchesPrimes ==
    (pc = "done" /\ OddBound) =>
        /\ \A n \in 0..MaxNumber : check(composites, n) = {Answer(IsPrime(n))}
        /\ (result # "none" /\ num <= MaxNumber) => result = Answer(IsPrime(num))

C1_Witness ==
    /\ pc = "done" /\ OddBound /\ MaxNumber >= 25
    /\ num = 25 /\ result = "false"

\* C2: whenever a get() has returned, the table built with the skip equals,
\* byte for byte and entry for entry, the table built with every odd factor
\* merged unconditionally.
C2_SkipIsOutputNeutral ==
    (pc \in {"build", "done"} /\ OddBound) =>
        LET noskip == merged_factor_table_noskip(SizeOf(MaxNumber), visited[Len(visited)])
        IN  /\ composites = noskip
            /\ \A i \in 0..(SizeOf(MaxNumber) - 1) : Get(composites, i) = Get(noskip, i)

C2_Witness ==
    /\ pc = "done" /\ MaxNumber >= 25
    /\ {9, 15, 21, 25} \subseteq (Range(visited) \ merged)

\* C3: a call of check whose read falls outside [0, Size) - an odd num above
\* the bound - ends in an error and gives no primality answer.
C3_OutOfRangeIsError ==
    (/\ pc = "done" /\ result # "none"
     /\ num >= 3 /\ num % 2 = 1
     /\ to_index(num) >= SizeOf(MaxNumber)) => result = "error"

\* C4: for a bound below 3 the construction completes with a table that marks
\* nothing, so that check can be called.
C4_SmallBoundBuildsEmptyTable ==
    (MaxNumber < 3) ~> (pc = "done" /\ \A k \in 1..Len(composites) : composites[k] = 0)

\* C5: check answers 0 -> false, 1 -> false, 2 -> true, even > 2 -> false, and
\* otherwise the negated table bit at to_index(num); in the first four cases
\* the answer is the same whatever table is consulted.
C5_DecisionOrder ==
    (pc = "done" /\ result # "none") =>
        /\ num = 0 => result = "false"
        /\ num = 1 => result = "false"
        /\ num = 2 => result = "true"
        /\ (num > 2 /\ num % 2 = 0) => result = "false"
        /\ (num > 2 /\ num % 2 = 1 /\ num <= MaxNumber) =>
                result = Answer(~Get(composites, to_index(num)))
        /\ (num <= 2 \/ num % 2 = 0) =>
                \A t \in {<<>>, ZeroStorage(SizeOf(MaxNumber)),
                          [k \in 1..bytes(SizeOf(MaxNumber)) |-> 2 ^ CHAR_BIT - 1]} :
                    check(t, num) = {result}

C5_Witness ==
    /\ pc = "done" /\ num = 2 /\ result = "true" /\ MaxNumber >= 9

\* C6: on the tracked range of the bound, to_index and to_number undo each other.
C6_IndexBijection ==
    /\ \A i \in 0..(SizeOf(MaxNumber) - 1) : to_index(to_number(i)) = i
    /\ \A n \in 3..MaxNumber : n % 2 = 1 => to_number(to_index(n)) = n

C6_Witness ==
    /\ pc = "done" /\ result # "none" /\ num = 23 /\ MaxNumber >= 23
    /\ to_index(num) = 10 /\ to_number(10) = num

C10_SkipExactlyComposites ==
    /\ []((OddBound /\ pc \in {"build", "done"}) =>
            /\ merged = {f \in Range(visited) : IsPrime(f)}
            /\ (pc = "build" /\ 5 <= PresentFactor /\ PresentFactor <= MaxNumber) =>
                  (KnownComposite(composites, PresentFactor) <=> IsComposite(PresentFactor)))
    /\ [][(OddBound /\ pc = "build" /\ IsComposite(PresentFactor))
            => (composites' = composites /\ merged' = merged)]_vars

C10_Witness ==
    /\ pc = "build" /\ PresentFactor = 25 /\ MaxNumber >= 25
    /\ KnownComposite(composites, PresentFactor)
    /\ merged = {3, 5, 7, 11, 13, 17, 19, 23}

----------------------------------------------------------------------------
(* SpecBits: bit_array<bits>(list), then reads. *)

BoolSeqs(n) == UNION {[1..k -> BOOLEAN] : k \in 0..n}

InitBits ==
    /\ IdleSieve
    /\ IdleMerge
    /\ bits \in 1..MaxBits
    /\ list \in BoolSeqs(bits + 1)
    /\ index = 0
    /\ storage = ZeroStorage(bits)
    /\ bpc = "assert"
    /\ readIdx = -1
    /\ readVal = FALSE

\* assert(list.size() <= bits)
CtorAssert ==
    /\ bpc = "assert"
    /\ bpc' = IF Len(list) <= bits THEN "ctor" ELSE "error"
    /\ UNCHANGED <<bits, list, index, storage, readIdx, readVal, sieveVars, mergeVars>>

\* One iteration of for (const auto& bit : list).
CtorStep ==
    /\ bpc = "ctor"
    /\ index < Len(list)
    /\ storage' = SetBit(storage, index, list[index + 1])
    /\ index' = index + 1
    /\ UNCHANGED <<bits, list, bpc, readIdx, readVal, sieveVars, mergeVars>>

\* The loop is over: the object is constructed.
CtorDone ==
    /\ bpc = "ctor"
    /\ index = Len(list)
    /\ bpc' = "ready"
    /\ UNCHANGED <<bits, list, index, storage, readIdx, readVal, sieveVars, mergeVars>>

\* operator[](i) with i below the capacity.
Read ==
    /\ bpc = "ready"
    /\ \E i \in 0..(bits - 1) :
          /\ readIdx' = i
          /\ readVal' = Get(storage, i)
    /\ UNCHANGED <<bits, list, index, storage, bpc, sieveVars, mergeVars>>

NextBits ==
    \/ CtorAssert
    \/ CtorStep
    \/ CtorDone
    \/ Read

SpecBits == InitBits /\ [][NextBits]_vars

\* C8: a table constructed from flags of length L <= capacity reads back
\* flags[i] for i < L and false for L <= i < capacity; while it is being
\* constructed, the entries already written keep their flag and the others
\* read false, so writing one index alters no other.
C8_ListRoundTrip ==
    /\ bpc \in {"ctor", "ready"} =>
          \A i \in 0..(bits - 1) : Get(storage, i) = (i < index /\ list[i + 1])
    /\ bpc = "ready" =>
          /\ index = Len(list)
          /\ storage = bit_array(bits, list)
          /\ readIdx >= 0 => readVal = (readIdx < Len(list) /\ list[readIdx + 1])

C8_Witness ==
    /\ bpc = "ready" /\ bits = 9 /\ Len(list) = 9
    /\ list[1] /\ ~list[8] /\ list[9]
    /\ readIdx = 7 /\ readVal = FALSE

----------------------------------------------------------------------------
(* SpecMerge: merge_factors on two tables of one size. *)

\* Tables of every content for the small sizes, and the factor tables of a
\* size that takes two bytes.
TwoByteSize == CHAR_BIT + MaxMergeSize

MergeInputs(Size) ==
    IF Size <= MaxMergeSize
    THEN {bit_array(Size, fl) : fl \in [1..Size -> BOOLEAN]}
    ELSE {get_factor_table(Size, 2 * k + 1) : k \in 1..Size}

InitMerge ==
    /\ IdleSieve
    /\ IdleBits
    /\ mSize \in (1..MaxMergeSize) \cup {TwoByteSize}
    /\ lhs \in MergeInputs(mSize)
    /\ rhs \in MergeInputs(mSize)
    /\ mout = NoMerge

MergeTables ==
    /\ ~mout.done
    /\ mout' = [done |-> TRUE,
                ab |-> merge_factors(mSize, lhs, rhs),
                ba |-> merge_factors(mSize, rhs, lhs),
                aa |-> merge_factors(mSize, lhs, lhs)]
    /\ UNCHANGED <<mSize, lhs, rhs, sieveVars, bitsVars>>

NextMerge ==
    \/ MergeTables

SpecMerge == InitMerge /\ [][NextMerge]_vars

\* C9: merge_factors(A, B) = merge_factors(B, A), merge_factors(A, A) = A, and
\* entry i of merge_factors(A, B) is A[i] or B[i].
C9_MergeCommutesAndIsIdempotent ==
    mout.done =>
        /\ mout.ab = mout.ba
        /\ mout.aa = lhs
        /\ \A i \in 0..(mSize - 1) : Get(mout.ab, i) = (Get(lhs, i) \/ Get(rhs, i))

C9_Witness ==
    /\ mout.done /\ mSize = TwoByteSize
    /\ lhs = get_factor_table(mSize, 3) /\ rhs = get_factor_table(mSize, 5)
    /\ Get(mout.ab, to_index(9)) /\ Get(mout.ab, to_index(25)) /\ ~Get(mout.ab, to_index(23))

====
